---- MODULE Spec2Model ----
(***************************************************************************)
(* USB Mass Storage Bulk-Only Transport function of dfusim                 *)
(* (src/dfusim/usbms.py, src/dfusim/cli.py) as a state machine.            *)
(*                                                                         *)
(* Byte strings are sequences of integers 0..255.  An optional value       *)
(* (Python None or a value) is a sequence of length 0 or 1.                *)
(* Data-transfer lengths and data packets are scaled down (a few bytes     *)
(* instead of 512); structure layouts and sizes are the real ones.         *)
(***************************************************************************)
EXTENDS Integers, Sequences, FiniteSets, TLC

\* ------------------------------------------------------------------------
\* Bounds of the model
\* ------------------------------------------------------------------------
\* dCBWDataTransferLength of a short data phase, and the longest data packet
MaxLen == 2
\* largest CBW tag a host sends
MaxTag == 2
\* cap on the accumulator once a data phase has overshot its length
MaxAccum == 3
\* the most logical units a function is constructed with
MaxUnits == 3

\* ------------------------------------------------------------------------
\* Program constants
\* ------------------------------------------------------------------------
USBMS_REQ_BBB_GET_MAX_LUN == 254
USBMS_REQ_BBB_RESET == 255
USBMS_CBW_MAGIC == 1128420181
USBMS_CSW_MAGIC == 1396855637
USBMS_CBW_DIR_MASK == 128
USBMS_CBW_DIR_IN == 128
USBMS_CBW_DIR_OUT == 0
USBMS_CSW_STATUS_GOOD == 0
USBMS_CSW_STATUS_BAD == 1
USBMS_CSW_STATUS_PHASE_ERROR == 2

SCSI_CMD_TEST_UNIT_READY == 0
SCSI_CMD_REQUEST_SENSE == 3
SCSI_CMD_INQUIRY == 18
SCSI_CMD_MODE_SENSE6 == 26
SCSI_CMD_START_STOP_UNIT == 27
SCSI_CMD_PREVENT_ALLOW_MEDIUM_REMOVAL == 30
SCSI_CMD_READ_FORMAT_CAPACITY == 35
SCSI_CMD_READ_CAPACITY10 == 37
SCSI_CMD_READ10 == 40
SCSI_CMD_WRITE10 == 42
SCSI_CMD_VERIFY10 == 47
SCSI_CMD_MODE_SENSE10 == 90

SCSI_REQUEST_SENSE_F0_ERROR_CODE_MASK == 127
SCSI_ERROR_CODE_CURRENT == 112
SCSI_REQUEST_SENSE_F2_SENSE_KEY_MASK == 15
SCSI_SENSE_KEY_NO_SENSE == 0
SCSI_SENSE_KEY_NOT_READY == 2
SCSI_SENSE_KEY_ILLEGAL_REQUEST == 5
SCSI_ASC_NONE == 0
SCSI_ASC_LUN_NOT_READY == 1024
SCSI_ASC_INVALID_FIELD_IN_CDB == 9216
SCSI_INQUIRY_HEADER_F1_RMB == 128
SCSI_INQUIRY_HEADER_FORMAT_SPC2 == 2
SCSI_INQUIRY_HEADER_VERSION_SPC2 == 4
SCSI_INQUIRY_PERIF_QUALIFIER_LOADED == 0
SCSI_INQUIRY_PERIF_TYPE_DIRECT == 0
SCSI_VERIFY_F1_BYTCHK == 2

\* errno.ESHUTDOWN and errno.EIO, as used for the OUT completion status
ESHUTDOWN == 108
EIO == 5

\* functionfs.ch9 values tested by onSetup
USB_ENDPOINT_DIR_MASK == 128
USB_DIR_OUT == 0
USB_DIR_IN == 128
USB_TYPE_MASK == 96
USB_TYPE_CLASS == 32
USB_RECIP_MASK == 31
USB_RECIP_INTERFACE == 1

\* ------------------------------------------------------------------------
\* Helpers for bytes and optional values
\* ------------------------------------------------------------------------
None == <<>>
Some(x) == <<x>>
IsNone(o) == Len(o) = 0
Get(o) == o[1]

RECURSIVE BitAndBits(_, _)
\* a & m on non-negative integers, bit by bit
BitAndBits(a, m) ==
    IF a = 0 \/ m = 0 THEN 0
    ELSE (a % 2) * (m % 2) + 2 * BitAndBits(a \div 2, m \div 2)

\* a & m; a mask that is one run of bits selects a field of a
BitAnd(a, m) ==
    CASE m = 128 -> ((a \div 128) % 2) * 128
      [] m = 127 -> a % 128
      [] m = 96 -> ((a \div 32) % 4) * 32
      [] m = 31 -> a % 32
      [] m = 15 -> a % 16
      [] m = 2 -> ((a \div 2) % 2) * 2
      [] OTHER -> BitAndBits(a, m)

RECURSIVE Zeros(_)
Zeros(n) == IF n <= 0 THEN <<>> ELSE <<0>> \o Zeros(n - 1)

\* the unsigned integer held by `size` (1, 2 or 4) bytes of b at offset
\* off, least significant byte first
LittleEndian(b, off, size) ==
    IF size = 1 THEN b[off + 1]
    ELSE IF size = 2 THEN b[off + 1] + 256 * b[off + 2]
    ELSE b[off + 1] + 256 * (b[off + 2] + 256 * (b[off + 3] + 256 * b[off + 4]))

\* the same, most significant byte first
BigEndian(b, off, size) ==
    IF size = 1 THEN b[off + 1]
    ELSE IF size = 2 THEN b[off + 2] + 256 * b[off + 1]
    ELSE b[off + 4] + 256 * (b[off + 3] + 256 * (b[off + 2] + 256 * b[off + 1]))

RECURSIVE ToLittleEndian(_, _)
ToLittleEndian(v, size) ==
    IF size = 0 THEN <<>>
    ELSE <<v % 256>> \o ToLittleEndian(v \div 256, size - 1)

RECURSIVE ToBigEndian(_, _)
ToBigEndian(v, size) ==
    IF size = 0 THEN <<>>
    ELSE ToBigEndian(v \div 256, size - 1) \o <<v % 256>>

\* ------------------------------------------------------------------------
\* Wire structures: a packed ctypes structure is the sequence of its
\* fields, each a pair <<name, size in bytes>>
\* ------------------------------------------------------------------------
RECURSIVE sizeof(_)
sizeof(fields) ==
    IF fields = <<>> THEN 0 ELSE Head(fields)[2] + sizeof(Tail(fields))

RECURSIVE offsetof(_, _)
offsetof(fields, name) ==
    IF Head(fields)[1] = name THEN 0
    ELSE Head(fields)[2] + offsetof(Tail(fields), name)

RECURSIVE fieldsize(_, _)
fieldsize(fields, name) ==
    IF Head(fields)[1] = name THEN Head(fields)[2]
    ELSE fieldsize(Tail(fields), name)

\* size of a structure and offset and width of each of its fields
Layout(fields) ==
    [size |-> sizeof(fields),
     offset |-> [n \in {fields[i][1] : i \in 1..Len(fields)} |->
                    offsetof(fields, n)],
     width |-> [n \in {fields[i][1] : i \in 1..Len(fields)} |->
                   fieldsize(fields, n)]]

SCSIParametersVoid6 == << <<"_reserved", 4>>, <<"control", 1>> >>

SCSIParametersRequestSense ==
    << <<"flags", 1>>, <<"_reserved", 2>>, <<"allocation_length", 1>>,
       <<"control", 1>> >>

SCSIParametersInquiry ==
    << <<"flags", 1>>, <<"page_code", 1>>, <<"allocation_length", 2>>,
       <<"control", 1>> >>

SCSIParametersModeSense6 ==
    << <<"flags", 1>>, <<"page", 1>>, <<"subpage_code", 1>>,
       <<"allocation_length", 1>>, <<"control", 1>> >>

SCSIParametersStartStopUnit ==
    << <<"flags1", 1>>, <<"_reserved", 2>>, <<"flags2", 1>>,
       <<"control", 1>> >>

SCSIParametersPreventAllowMediumRemoval ==
    << <<"_reserved", 3>>, <<"flags", 1>>, <<"control", 1>> >>

SCSIParametersReadCapacity10 ==
    << <<"flags1", 1>>, <<"lba", 4>>, <<"_reserved", 2>>, <<"flags2", 1>>,
       <<"control", 1>> >>

SCSIParametersIO10 ==
    << <<"flags", 1>>, <<"lba", 4>>, <<"group_number", 1>>,
       <<"transfer_length", 2>>, <<"control", 1>> >>

SCSIParametersVerify10 ==
    << <<"flags1", 1>>, <<"lba", 4>>, <<"flags2", 1>>,
       <<"verification_length", 2>>, <<"control", 1>> >>

SCSIParametersModeSense10 ==
    << <<"flags", 1>>, <<"page", 1>>, <<"_reserved", 4>>,
       <<"allocation_length", 2>>, <<"control", 1>> >>

SCSICommandBuffer == << <<"command", 1>>, <<"parameters", 15>> >>

SCSIRequestSenseExt ==
    << <<"command_specific_information", 4>>, <<"asc_ascq", 2>>,
       <<"field_replaceable_unit_code", 1>>, <<"sense_key_specific_0", 1>>,
       <<"sense_key_specific_1", 1>>, <<"sense_key_specific_2", 1>> >>

SCSIRequestSenseHeader ==
    << <<"field_0", 1>>, <<"_obsolete", 1>>, <<"field_2", 1>>,
       <<"information", 4>>, <<"additional_sense_length", 1>> >>

SCSIResponseRequestSense ==
    << <<"header", sizeof(SCSIRequestSenseHeader)>>,
       <<"ext", sizeof(SCSIRequestSenseExt)>> >>

SCSIResponseInquiryHeader ==
    << <<"peripheral_type", 1>>, <<"field_1", 1>>, <<"version", 1>>,
       <<"field_3", 1>>, <<"additional_length", 1>> >>

SCSIResponseInquiryFeatures ==
    << <<"field_0", 1>>, <<"flags", 2>>, <<"vendor_id", 8>>,
       <<"product_id", 16>>, <<"product_revision", 4>> >>

SCSIResponseInquiry ==
    << <<"header", sizeof(SCSIResponseInquiryHeader)>>,
       <<"features", sizeof(SCSIResponseInquiryFeatures)>> >>

SCSIResponseModeSense6Header ==
    << <<"mode_data_length", 1>>, <<"medium_type", 1>>,
       <<"device_specific_params", 1>>, <<"block_descriptor_length", 1>> >>

CBW ==
    << <<"dCBWSignature", 4>>, <<"dCBWTag", 4>>,
       <<"dCBWDataTransferLength", 4>>, <<"bmCBWFlags", 1>>,
       <<"bCBWLUN", 1>>, <<"bCBWCBLength", 1>>,
       <<"CBWCB", sizeof(SCSICommandBuffer)>> >>

CSW ==
    << <<"dCSWSignature", 4>>, <<"dCSWTag", 4>>, <<"dCSWDataResidue", 4>>,
       <<"bCSWStatus", 1>> >>

\* opcode -> parameter structure (by class name)
_PARSERS ==
    (SCSI_CMD_TEST_UNIT_READY :> "SCSIParametersVoid6") @@
    (SCSI_CMD_REQUEST_SENSE :> "SCSIParametersRequestSense") @@
    (SCSI_CMD_INQUIRY :> "SCSIParametersInquiry") @@
    (SCSI_CMD_MODE_SENSE6 :> "SCSIParametersModeSense6") @@
    (SCSI_CMD_START_STOP_UNIT :> "SCSIParametersStartStopUnit") @@
    (SCSI_CMD_PREVENT_ALLOW_MEDIUM_REMOVAL :>
        "SCSIParametersPreventAllowMediumRemoval") @@
    (SCSI_CMD_READ_CAPACITY10 :> "SCSIParametersReadCapacity10") @@
    (SCSI_CMD_READ10 :> "SCSIParametersIO10") @@
    (SCSI_CMD_WRITE10 :> "SCSIParametersIO10") @@
    (SCSI_CMD_VERIFY10 :> "SCSIParametersVerify10") @@
    (SCSI_CMD_MODE_SENSE10 :> "SCSIParametersModeSense10")

\* the layout of a parameter structure, by class name
ParameterFields(class) ==
    CASE class = "SCSIParametersVoid6" -> SCSIParametersVoid6
      [] class = "SCSIParametersRequestSense" -> SCSIParametersRequestSense
      [] class = "SCSIParametersInquiry" -> SCSIParametersInquiry
      [] class = "SCSIParametersModeSense6" -> SCSIParametersModeSense6
      [] class = "SCSIParametersStartStopUnit" -> SCSIParametersStartStopUnit
      [] class = "SCSIParametersPreventAllowMediumRemoval" ->
             SCSIParametersPreventAllowMediumRemoval
      [] class = "SCSIParametersReadCapacity10" -> SCSIParametersReadCapacity10
      [] class = "SCSIParametersIO10" -> SCSIParametersIO10
      [] class = "SCSIParametersVerify10" -> SCSIParametersVerify10
      [] class = "SCSIParametersModeSense10" -> SCSIParametersModeSense10

\* the layouts of the structures the handlers measure or decode
ParameterLayout ==
    [class \in {_PARSERS[c] : c \in DOMAIN _PARSERS} |->
        Layout(ParameterFields(class))]
CBW_layout == Layout(CBW)
SCSICommandBuffer_layout == Layout(SCSICommandBuffer)
SCSIResponseInquiry_layout == Layout(SCSIResponseInquiry)
SCSIResponseInquiryFeatures_layout == Layout(SCSIResponseInquiryFeatures)
SCSIResponseRequestSense_layout == Layout(SCSIResponseRequestSense)
SCSIRequestSenseExt_layout == Layout(SCSIRequestSenseExt)
SCSIResponseModeSense6Header_layout == Layout(SCSIResponseModeSense6Header)

\* SCSICommandBuffer.command of a 16-byte command buffer
command(cb) == cb[1]

\* SCSICommandBuffer.cdb_size (no override is ever set)
cdb_size(cb) ==
    IF 0 <= command(cb) /\ command(cb) <= 31 THEN 6
    ELSE IF 32 <= command(cb) /\ command(cb) <= 95 THEN 10
    ELSE IF 128 <= command(cb) /\ command(cb) <= 159 THEN 16
    ELSE IF 160 <= command(cb) /\ command(cb) <= 191 THEN 12
    ELSE 0

\* SCSICommandBuffer.parseable
parseable(cb) == command(cb) \in DOMAIN _PARSERS

\* SCSICommandBuffer.cast: the class the parameters are cast to
cast(cb) == _PARSERS[command(cb)]

\* a big-endian field of the cast parameters
param(cb, name) ==
    BigEndian(cb,
              SCSICommandBuffer_layout.offset.parameters
                  + ParameterLayout[cast(cb)].offset[name],
              ParameterLayout[cast(cb)].width[name])

\* CBW.from_buffer / CBW.from_buffer_copy: None when the buffer is shorter
\* than the structure (ctypes raises ValueError), else the decoded fields.
\* (Model integers are 32-bit signed: the packets of this model keep the
\* top byte of each 32-bit field below 0x80.)
CBW_from_buffer(data) ==
    IF Len(data) < CBW_layout.size THEN None
    ELSE Some([
        dCBWSignature |->
            LittleEndian(data, CBW_layout.offset.dCBWSignature,
                         CBW_layout.width.dCBWSignature),
        dCBWTag |->
            LittleEndian(data, CBW_layout.offset.dCBWTag,
                         CBW_layout.width.dCBWTag),
        dCBWDataTransferLength |->
            LittleEndian(data, CBW_layout.offset.dCBWDataTransferLength,
                         CBW_layout.width.dCBWDataTransferLength),
        bmCBWFlags |-> data[CBW_layout.offset.bmCBWFlags + 1],
        bCBWLUN |-> data[CBW_layout.offset.bCBWLUN + 1],
        bCBWCBLength |-> data[CBW_layout.offset.bCBWCBLength + 1],
        CBWCB |-> SubSeq(data, CBW_layout.offset.CBWCB + 1,
                         CBW_layout.offset.CBWCB + CBW_layout.width.CBWCB)])

\* the bytes of a CBW with the given fields (what a host puts on the wire)
CBW_bytes(sig, tag, dlen, flags, lun, cblen, cb) ==
    ToLittleEndian(sig, 4) \o ToLittleEndian(tag, 4) \o ToLittleEndian(dlen, 4)
        \o <<flags, lun, cblen>> \o cb \o Zeros(sizeof(SCSICommandBuffer) - Len(cb))

\* a variant that leaves the tag at the structure's default
CSW_simple_untagged(tag, status, data_residue) ==
    [dCSWSignature |-> USBMS_CSW_MAGIC,
     dCSWTag |-> 0,
     dCSWDataResidue |-> data_residue,
     bCSWStatus |-> status]

\* CSW.simple
CSW_simple(tag, status, data_residue) ==
    [dCSWSignature |-> USBMS_CSW_MAGIC,
     dCSWTag |-> tag,
     dCSWDataResidue |-> data_residue,
     bCSWStatus |-> status]

\* SCSIResponseRequestSense.simple
SCSIResponseRequestSense_simple(sense_key, asc_ascq) ==
    [type |-> "SCSIResponseRequestSense",
     len |-> SCSIResponseRequestSense_layout.size,
     additional_sense_length |-> SCSIRequestSenseExt_layout.size,
     error_code |-> BitAnd(SCSI_ERROR_CODE_CURRENT,
                           SCSI_REQUEST_SENSE_F0_ERROR_CODE_MASK),
     sense_key |-> BitAnd(sense_key, SCSI_REQUEST_SENSE_F2_SENSE_KEY_MASK),
     asc_ascq |-> asc_ascq]

\* a variant that leaves the removable bit clear
SCSIResponseInquiry_simple_fixed(peripheral_type, is_removable, vendor, product, revision) ==
    [type |-> "SCSIResponseInquiry",
     len |-> SCSIResponseInquiry_layout.size,
     peripheral_type |-> peripheral_type,
     field_1 |-> 0,
     version |-> SCSI_INQUIRY_HEADER_VERSION_SPC2,
     field_3 |-> SCSI_INQUIRY_HEADER_FORMAT_SPC2,
     additional_length |-> SCSIResponseInquiryFeatures_layout.size,
     vendor_id |-> vendor,
     product_id |-> product,
     product_revision |-> revision]

\* SCSIResponseInquiry.simple
SCSIResponseInquiry_simple(peripheral_type, is_removable, vendor, product, revision) ==
    [type |-> "SCSIResponseInquiry",
     len |-> SCSIResponseInquiry_layout.size,
     peripheral_type |-> peripheral_type,
     field_1 |-> IF is_removable THEN SCSI_INQUIRY_HEADER_F1_RMB ELSE 0,
     version |-> SCSI_INQUIRY_HEADER_VERSION_SPC2,
     field_3 |-> SCSI_INQUIRY_HEADER_FORMAT_SPC2,
     additional_length |-> SCSIResponseInquiryFeatures_layout.size,
     vendor_id |-> vendor,
     product_id |-> product,
     product_revision |-> revision]

\* ------------------------------------------------------------------------
\* Sense/error model: what raising an exception from a handler yields
\* ------------------------------------------------------------------------
\* MassStorageError(csw_status, sense), raised after the hooks in `calls`
MassStorageError(csw_status, sense, calls) ==
    [kind |-> "MassStorageError", value |-> None, csw_status |-> csw_status,
     sense |-> sense, calls |-> calls]

\* a variant that reports the phase error as an Illegal Request
MassStoragePhaseError_illegal(calls) ==
    MassStorageError(
        USBMS_CSW_STATUS_BAD,
        Some(SCSIResponseRequestSense_simple(SCSI_SENSE_KEY_ILLEGAL_REQUEST,
                                             SCSI_ASC_NONE)),
        calls)

\* MassStoragePhaseError()
MassStoragePhaseError(calls) ==
    MassStorageError(USBMS_CSW_STATUS_PHASE_ERROR, None, calls)

\* a variant that builds its sense with the Not Ready key
MassStorageIllegalRequestError_notReady(details, calls) ==
    MassStorageError(
        USBMS_CSW_STATUS_BAD,
        Some(SCSIResponseRequestSense_simple(SCSI_SENSE_KEY_NOT_READY,
                                             details)),
        calls)

\* MassStorageIllegalRequestError(details): its __init__ raises a
\* MassStorageError carrying an Illegal Request sense
MassStorageIllegalRequestError(details, calls) ==
    MassStorageError(
        USBMS_CSW_STATUS_BAD,
        Some(SCSIResponseRequestSense_simple(SCSI_SENSE_KEY_ILLEGAL_REQUEST,
                                             details)),
        calls)

\* MassStorageNotReadyError(details)
MassStorageNotReadyError(details, calls) ==
    MassStorageError(
        USBMS_CSW_STATUS_BAD,
        Some(SCSIResponseRequestSense_simple(SCSI_SENSE_KEY_NOT_READY,
                                             details)),
        calls)

\* any exception that is not a MassStorageError
Exception(calls) ==
    [kind |-> "Exception", value |-> None, csw_status |-> 0, sense |-> None,
     calls |-> calls]

\* a normal return of `value` (None or a payload)
Return(value, calls) ==
    [kind |-> "return", value |-> value, csw_status |-> 0, sense |-> None,
     calls |-> calls]

\* ------------------------------------------------------------------------
\* Logical units
\* ------------------------------------------------------------------------
\* The classes of logical unit: the base class (or a class derived from
\* it that calls the base constructor) and the CLI's in-memory unit.
LogicalUnitClasses == {"MassStorageLogicalUnit", "MassStorageLogicalUnitDummy"}

\* The `sense` attribute of a logical unit: absent, None or a sense payload.
SenseAbsent == [set |-> FALSE, value |-> None]
SenseNone == [set |-> TRUE, value |-> None]
SenseOf(payload) == [set |-> TRUE, value |-> payload]

\* MassStorageLogicalUnit.__init__ sets sense = None;
\* MassStorageLogicalUnitDummy.__init__ does not call it.
LogicalUnit_init(class) ==
    IF class = "MassStorageLogicalUnitDummy" THEN SenseAbsent ELSE SenseNone

BLOCK_SIZE == 512
LBA_COUNT == 32768

\* What a backend hook does when a command calls it.  The hooks of the
\* base class may be overridden in a derived class: "default" is the body
\* in the source, "error" an override raising MassStorageNotReadyError,
\* "fault" an override raising some other exception.
HookBehaviours == {"default", "error", "fault"}

\* the outcome of calling hook `name` whose source body yields `default`
Hook(class, hb, name, default) ==
    IF class = "MassStorageLogicalUnit" /\ hb = "error"
    THEN MassStorageNotReadyError(SCSI_ASC_LUN_NOT_READY, <<name>>)
    ELSE IF class = "MassStorageLogicalUnit" /\ hb = "fault"
    THEN Exception(<<name>>)
    ELSE default

\* onTestUnitReady
onTestUnitReady(class, hb) ==
    Hook(class, hb, "onTestUnitReady", Return(None, <<"onTestUnitReady">>))

\* a variant that asks for more room than the response takes
onInquiry_strict(class, hb, request_size) ==
    Hook(class, hb, "onInquiry",
         IF request_size > SCSIResponseInquiry_layout.size
         THEN Return(Some(SCSIResponseInquiry_simple(
                         SCSI_INQUIRY_PERIF_QUALIFIER_LOADED
                             + SCSI_INQUIRY_PERIF_TYPE_DIRECT,
                         TRUE, "PyFFS", "USBMS", "0000")),
                     <<"onInquiry">>)
         ELSE MassStorageIllegalRequestError(SCSI_ASC_INVALID_FIELD_IN_CDB,
                                             <<"onInquiry">>))

\* onInquiry(request_size)
onInquiry(class, hb, request_size) ==
    Hook(class, hb, "onInquiry",
         IF request_size >= SCSIResponseInquiry_layout.size
         THEN Return(Some(SCSIResponseInquiry_simple(
                         SCSI_INQUIRY_PERIF_QUALIFIER_LOADED
                             + SCSI_INQUIRY_PERIF_TYPE_DIRECT,
                         TRUE, "PyFFS", "USBMS", "0000")),
                     <<"onInquiry">>)
         ELSE MassStorageIllegalRequestError(SCSI_ASC_INVALID_FIELD_IN_CDB,
                                             <<"onInquiry">>))

\* onReadCapacity: (number of LBAs, size of an LBA)
onReadCapacity(class) ==
    IF class = "MassStorageLogicalUnitDummy"
    THEN <<LBA_COUNT - 1, BLOCK_SIZE>>
    ELSE <<0, 512>>

\* MassStorageLogicalUnitDummy.__init__: the bytearray _io, kept as its
\* length and its bytes that are not zero, <<offset, value>>; a unit of
\* the base class has no store
io_init(class) ==
    IF class = "MassStorageLogicalUnitDummy"
    THEN Some([len |-> BLOCK_SIZE * LBA_COUNT, bytes |-> {}])
    ELSE None

\* the bound of a slice, clipped to the length of the sequence
clip(index, len) == IF index < len THEN index ELSE len

\* bytearray slice assignment io[offset:offset+len(data)] = data: the
\* slice, clipped to the bytearray, is replaced by data whatever its length
setslice(io, offset, data) ==
    LET start == clip(offset, io.len)
        stop == clip(offset + Len(data), io.len)
    IN  [len |-> start + Len(data) + (io.len - stop),
         bytes |-> {b \in io.bytes : b[1] < start}
                   \cup {<<start + j - 1, data[j]>> :
                            j \in {k \in 1..Len(data) : data[k] # 0}}
                   \cup {<<b[1] - stop + start + Len(data), b[2]>> :
                            b \in {c \in io.bytes : c[1] >= stop}}]

\* memoryview(io)[lo:hi], both bounds clipped
getslice(io, lo, hi) ==
    [type |-> "bytes",
     len |-> clip(hi, io.len) - clip(lo, io.len),
     bytes |-> {<<b[1] - clip(lo, io.len), b[2]>> :
                  b \in {c \in io.bytes : c[1] >= clip(lo, io.len)
                                           /\ c[1] < clip(hi, io.len)}}]

\* onRead(lba, length): the bytes returned
onRead(class, io, lba, length) ==
    IF class = "MassStorageLogicalUnitDummy"
    THEN getslice(Get(io), lba * BLOCK_SIZE,
                  lba * BLOCK_SIZE + length * BLOCK_SIZE)
    ELSE [type |-> "bytes", len |-> length * 512, bytes |-> {}]

\* onWrite(lba, data): the store it leaves
onWrite(class, io, lba, data) ==
    IF class = "MassStorageLogicalUnitDummy"
    THEN Some(setslice(Get(io), lba * BLOCK_SIZE, data))
    ELSE io

\* a variant that only refuses a CDB too short for the parameters
SizeMismatch_short(params, cbw) ==
    ParameterLayout[params].size > cbw.bCBWCBLength - 1

\* the parameter-size check of onCommand: the structure the parameters are
\* cast to against the CDB length the CBW declares
SizeMismatch(params, cbw) ==
    ParameterLayout[params].size # cbw.bCBWCBLength - 1

\* MassStorageLogicalUnit.onCommand(cbw, data) on a unit of class `class`
\* whose sense attribute is `sense` and whose store is `io`; data is None
\* or Some(bytes)
onCommand(class, sense, io, cbw, data, hb) ==
    IF ~parseable(cbw.CBWCB)
    THEN MassStorageIllegalRequestError(SCSI_ASC_NONE, <<>>)
    ELSE LET params == cast(cbw.CBWCB)
             cmd == command(cbw.CBWCB)
         IN
         IF SizeMismatch(params, cbw)
         THEN MassStorageIllegalRequestError(SCSI_ASC_NONE, <<>>)
         ELSE CASE params = "SCSIParametersVoid6" ->
                  IF cmd = SCSI_CMD_TEST_UNIT_READY
                  THEN onTestUnitReady(class, hb)
                  ELSE Return(None, <<>>)
           [] params = "SCSIParametersRequestSense" ->
                  IF ~sense.set THEN Exception(<<>>)
                  ELSE IF ~IsNone(sense.value)
                  THEN Return(sense.value, <<>>)
                  ELSE Return(Some(SCSIResponseRequestSense_simple(
                                       SCSI_SENSE_KEY_NO_SENSE, SCSI_ASC_NONE)),
                              <<>>)
           [] params = "SCSIParametersModeSense6" ->
                  Return(Some([type |-> "SCSIResponseModeSense6Header",
                               len |-> SCSIResponseModeSense6Header_layout.size,
                               mode_data_length |->
                                   SCSIResponseModeSense6Header_layout.size
                                   - SCSIResponseModeSense6Header_layout
                                         .width.mode_data_length]),
                         <<>>)
           [] params = "SCSIParametersInquiry" ->
                  onInquiry(class, hb, param(cbw.CBWCB, "allocation_length"))
           [] params = "SCSIParametersStartStopUnit" -> Return(None, <<>>)
           [] params = "SCSIParametersPreventAllowMediumRemoval" ->
                  Return(None, <<>>)
           [] params = "SCSIParametersReadCapacity10" ->
                  IF param(cbw.CBWCB, "flags2") = 0
                  THEN Hook(class, hb, "onReadCapacity",
                            Return(Some([type |-> "bytes",
                                         len |-> 8,
                                         bytes |->
                                             ToBigEndian(onReadCapacity(class)[1], 4)
                                             \o ToBigEndian(onReadCapacity(class)[2], 4)]),
                                   <<"onReadCapacity">>))
                  ELSE MassStorageIllegalRequestError(
                           SCSI_ASC_INVALID_FIELD_IN_CDB, <<>>)
           [] params = "SCSIParametersIO10" ->
                  IF cmd = SCSI_CMD_READ10
                  THEN Hook(class, hb, "onRead",
                            Return(Some(onRead(class, io,
                                               param(cbw.CBWCB, "lba"),
                                               param(cbw.CBWCB,
                                                     "transfer_length"))),
                                   <<"onRead">>))
                  ELSE IF cmd = SCSI_CMD_WRITE10
                  THEN IF IsNone(data)
                       THEN MassStoragePhaseError(<<>>)
                       ELSE Hook(class, hb, "onWrite",
                                 Return(None, <<"onWrite">>))
                  ELSE MassStorageIllegalRequestError(SCSI_ASC_NONE, <<>>)
           [] params = "SCSIParametersVerify10" ->
                  LET do_byte_check ==
                          BitAnd(param(cbw.CBWCB, "flags1"),
                                 SCSI_VERIFY_F1_BYTCHK) # 0
                  IN  IF IsNone(data) /\ do_byte_check
                      THEN MassStorageIllegalRequestError(
                               SCSI_ASC_INVALID_FIELD_IN_CDB, <<>>)
                      ELSE Hook(class, hb, "onVerify",
                                Return(None, <<"onVerify">>))
           [] OTHER -> MassStorageIllegalRequestError(SCSI_ASC_NONE, <<>>)

\* ------------------------------------------------------------------------
\* Bulk-Only transport
\* ------------------------------------------------------------------------
VARIABLES
    _logical_units,     \* the class of each logical unit, in LUN order
    sense,              \* the sense attribute of each logical unit
    _io,                \* the store of each logical unit that has one
    _receiving_length,  \* bytes expected in the current OUT data phase
    _received_data,     \* the accumulator
    _current_cbw,       \* None, or the CBW stored for its data phase
    halted,             \* the endpoints halt() was ever called on
    constructed,        \* FALSE when __init__ raised
    call,               \* the entry point last invoked, with its arguments
    halt_calls,         \* the endpoints it called halt() on
    in_writes,          \* its write attempts on the IN endpoint, in order
    ep0_writes,         \* its writes on endpoint 0
    calls,              \* the logical-unit hooks it called, <<lun, name>>
    processed,          \* the arguments and outcome of its _processCBW call
    raised              \* the exception it let through to its caller

vars == <<_logical_units, sense, _io, _receiving_length, _received_data,
          _current_cbw, halted, constructed, call, halt_calls, in_writes,
          ep0_writes,
          calls, processed, raised>>

\* inep.write(x): one more attempt on the IN endpoint; the attempts whose
\* position is in `fail` raise
write(writes, fail, kind, body) ==
    Append(writes, [kind |-> kind, ok |-> (Len(writes) + 1) \notin fail,
                    body |-> body])

LastFailed(writes) == writes # <<>> /\ ~writes[Len(writes)].ok

\* the try block of _processCBW once onCommand returned r.value: the
\* response, if any, then the Good-status CSW; stops at a failed write
TryWrites(cbw, r, fail) ==
    LET response == IF ~IsNone(r.value)
                    THEN write(<<>>, fail, "response_data", Get(r.value))
                    ELSE <<>>
    IN  IF LastFailed(response) THEN response
        ELSE write(response, fail, "CSW",
                   CSW_simple(cbw.dCBWTag, USBMS_CSW_STATUS_GOOD, 0))

\* a variant that keeps the sense of every command on the first unit
ExceptMassStorageError_first(senses, cbw, r, hooks, fail) ==
    LET w == write(<<>>, fail, "CSW", CSW_simple(cbw.dCBWTag, r.csw_status, 0))
    IN  [sense |-> [senses EXCEPT ![1] = SenseOf(r.sense)],
         in_writes |-> w, calls |-> hooks, outcome |-> r.kind,
         raised |-> IF LastFailed(w) THEN "IOError" ELSE "none"]

\* except MassStorageError: the unit's sense is set from the error and a
\* CSW carrying the error's status is written
ExceptMassStorageError(senses, cbw, r, hooks, fail) ==
    LET w == write(<<>>, fail, "CSW", CSW_simple(cbw.dCBWTag, r.csw_status, 0))
    IN  [sense |-> [senses EXCEPT ![cbw.bCBWLUN + 1] = SenseOf(r.sense)],
         in_writes |-> w, calls |-> hooks, outcome |-> r.kind,
         raised |-> IF LastFailed(w) THEN "IOError" ELSE "none"]

\* a variant that clears the sense and leaves the command unanswered
ExceptException_silent(senses, cbw, outcome, tried, hooks, fail) ==
    [sense |-> [senses EXCEPT ![cbw.bCBWLUN + 1] = SenseNone],
     in_writes |-> tried, calls |-> hooks, outcome |-> outcome,
     raised |-> "none"]

\* a variant that leaves the unit's sense as the fault found it
ExceptException_keep(senses, cbw, outcome, tried, hooks, fail) ==
    LET w == write(tried, fail, "CSW",
                   CSW_simple(cbw.dCBWTag, USBMS_CSW_STATUS_PHASE_ERROR, 0))
    IN  [sense |-> senses,
         in_writes |-> w, calls |-> hooks, outcome |-> outcome,
         raised |-> IF LastFailed(w) THEN "IOError" ELSE "none"]

\* except Exception, entered after the write attempts `tried`: the unit's
\* sense is cleared and a PhaseError CSW is written
ExceptException(senses, cbw, outcome, tried, hooks, fail) ==
    LET w == write(tried, fail, "CSW",
                   CSW_simple(cbw.dCBWTag, USBMS_CSW_STATUS_PHASE_ERROR, 0))
    IN  [sense |-> [senses EXCEPT ![cbw.bCBWLUN + 1] = SenseNone],
         in_writes |-> w, calls |-> hooks, outcome |-> outcome,
         raised |-> IF LastFailed(w) THEN "IOError" ELSE "none"]

\* the hooks a command called, each with the LUN of its unit
Hooks(cbw, r) == [i \in 1..Len(r.calls) |-> <<cbw.bCBWLUN, r.calls[i]>>]

\* the end of the try block after the write attempts `tried`: a failed
\* write is an exception like any other
Try(senses, cbw, r, tried, fail) ==
    IF LastFailed(tried)
    THEN ExceptException(senses, cbw, "IOError", tried, Hooks(cbw, r), fail)
    ELSE [sense |-> senses, in_writes |-> tried, calls |-> Hooks(cbw, r),
          outcome |-> r.kind, raised |-> "none"]

\* the try statement of _processCBW, r being what onCommand did
Answer(senses, cbw, r, fail) ==
    IF r.kind = "return"
    THEN Try(senses, cbw, r, TryWrites(cbw, r, fail), fail)
    ELSE IF r.kind = "MassStorageError"
    THEN ExceptMassStorageError(senses, cbw, r, Hooks(cbw, r), fail)
    ELSE ExceptException(senses, cbw, r.kind, <<>>, Hooks(cbw, r), fail)

\* _processCBW(cbw, data) with the units' sense attributes `senses`.
\* Yields the new sense attributes, the IN write attempts, the hooks
\* called, the outcome of onCommand and the exception that escapes.
_processCBW(units, senses, ios, cbw, data, hb, fail) ==
    IF cbw.bCBWLUN >= Len(units)
    THEN \* IndexError in the try block and again in its handler
         [sense |-> senses, in_writes |-> <<>>, calls |-> <<>>,
          outcome |-> "IndexError", raised |-> "IndexError"]
    ELSE Answer(senses, cbw,
                onCommand(units[cbw.bCBWLUN + 1], senses[cbw.bCBWLUN + 1],
                          ios[cbw.bCBWLUN + 1], cbw, data, hb),
                fail)

\* What an entry point leaves behind: the session state, the sense
\* attributes, the endpoints it halted and what it did on the way.
Outcome(rl, rd, cc, senses, halt, writes, hooks, proc, exc) ==
    [_receiving_length |-> rl, _received_data |-> rd, _current_cbw |-> cc,
     sense |-> senses, halt |-> halt, in_writes |-> writes, calls |-> hooks,
     processed |-> proc, raised |-> exc]

\* a variant whose handler lets the escaped exception pass without a halt
Dispatched_quiet(rl, rd, cc, cbw, data, p) ==
    Outcome(rl, rd, cc, p.sense, {}, p.in_writes, p.calls,
            <<[cbw |-> cbw, data |-> data, outcome |-> p.outcome]>>,
            "none")

\* what _onOutEndpointComplete leaves behind once _processCBW did p: any
\* exception that escaped it halts both endpoints
Dispatched(rl, rd, cc, cbw, data, p) ==
    Outcome(rl, rd, cc, p.sense,
            IF p.raised # "none" THEN {1, 2} ELSE {},
            p.in_writes, p.calls,
            <<[cbw |-> cbw, data |-> data, outcome |-> p.outcome]>>,
            "none")

\* the call of _processCBW inside the try block of _onOutEndpointComplete
Dispatch(units, senses, ios, rl, rd, cc, cbw, data, hb, fail) ==
    Dispatched(rl, rd, cc, cbw, data,
               _processCBW(units, senses, ios, cbw, data, hb, fail))

\* a variant that tests against the signature of a CSW
InvalidMagic_csw(cbw) == cbw.dCBWSignature # USBMS_CSW_MAGIC

\* the signature test on a parsed CBW
InvalidMagic(cbw) == cbw.dCBWSignature # USBMS_CBW_MAGIC

\* the test for a command without an OUT data phase
NoDataPhase(cbw) ==
    \/ cbw.dCBWDataTransferLength = 0
    \/ BitAnd(cbw.bmCBWFlags, USBMS_CBW_DIR_MASK) = USBMS_CBW_DIR_IN

\* a variant that puts the new packet in front
extend_front(received, data) == data \o received

\* _received_data.extend(data)
extend(received, data) == received \o data

\* the test that ends the OUT data phase
Received(received, receiving_length) == Len(received) = receiving_length

\* the branch of _onOutEndpointComplete for _receiving_length = 0, `parsed`
\* being what CBW.from_buffer(data) gave
Idle(units, senses, ios, rl, rd, cc, parsed, hb, fail) ==
    IF IsNone(parsed)
    THEN \* ValueError from ctypes, caught: both endpoints halted
         Outcome(rl, rd, cc, senses, {1, 2}, <<>>, <<>>, <<>>, "none")
    ELSE IF InvalidMagic(Get(parsed))
    THEN Outcome(rl, rd, cc, senses, {1, 2}, <<>>, <<>>, <<>>, "none")
    ELSE IF NoDataPhase(Get(parsed))
    THEN Dispatch(units, senses, ios, rl, rd, cc, Get(parsed), None, hb,
                  fail)
    ELSE Outcome(Get(parsed).dCBWDataTransferLength, <<>>, parsed, senses,
                 {}, <<>>, <<>>, <<>>, "none")

\* the other branch, `acc` being _received_data after extend(data)
ReceivingData(units, senses, ios, rl, acc, cc, hb, fail) ==
    IF IsNone(cc)
    THEN \* AttributeError on _current_cbw, caught
         Outcome(rl, acc, cc, senses, {1, 2}, <<>>, <<>>, <<>>, "none")
    ELSE IF Received(acc, rl)
    THEN Dispatch(units, senses, ios, 0, acc, cc, Get(cc), Some(acc), hb,
                  fail)
    ELSE Outcome(rl, acc, cc, senses, {}, <<>>, <<>>, <<>>, "none")

\* _onOutEndpointComplete(data, status)
_onOutEndpointComplete(units, senses, ios, rl, rd, cc, data, status, hb, fail) ==
    IF status # 0
    THEN Outcome(rl, rd, cc, senses, {1, 2}, <<>>, <<>>, <<>>, "IOError")
    ELSE IF rl = 0
    THEN Idle(units, senses, ios, rl, rd, cc, CBW_from_buffer(data), hb,
              fail)
    ELSE ReceivingData(units, senses, ios, rl, extend(rd, data), cc, hb,
                       fail)

\* a variant that hands every completion to the function
onComplete_all(units, senses, ios, rl, rd, cc, data, status, hb, fail) ==
    _onOutEndpointComplete(units, senses, ios, rl, rd, cc, data, status, hb,
                           fail)

\* MassStorageEndpointOUTFile.onComplete(data, status)
onComplete(units, senses, ios, rl, rd, cc, data, status, hb, fail) ==
    IF status = -ESHUTDOWN
    THEN Outcome(rl, rd, cc, senses, {}, <<>>, <<>>, <<>>, "none")
    ELSE _onOutEndpointComplete(units, senses, ios, rl, rd, cc, data, status,
                                hb, fail)

\* a variant that leaves the loop over the units after the first
reset_first(units, senses) ==
    Outcome(0, <<>>, None, senses, {}, <<>>, <<<<0, "onReset">>>>, <<>>,
            "none")

\* MassStorageFunction.reset: onReset on every unit, session state cleared
reset(units, senses) ==
    Outcome(0, <<>>, None, senses, {}, <<>>,
            [i \in 1..Len(units) |-> <<i - 1, "onReset">>], <<>>, "none")

\* a variant that answers the number of units
getMaxLUN_count(units) == Len(units)

\* MassStorageFunction.getMaxLUN
getMaxLUN(units) == Len(units) - 1

\* the branch onSetup(request_type, request, ...) takes
onSetup(request_type, request) ==
    IF /\ BitAnd(request_type, USB_ENDPOINT_DIR_MASK) = USB_DIR_OUT
       /\ BitAnd(request_type, USB_TYPE_MASK) = USB_TYPE_CLASS
       /\ BitAnd(request_type, USB_RECIP_MASK) = USB_RECIP_INTERFACE
       /\ request = USBMS_REQ_BBB_RESET
    THEN "reset"
    ELSE IF /\ BitAnd(request_type, USB_ENDPOINT_DIR_MASK) = USB_DIR_IN
            /\ BitAnd(request_type, USB_TYPE_MASK) = USB_TYPE_CLASS
            /\ BitAnd(request_type, USB_RECIP_MASK) = USB_RECIP_INTERFACE
            /\ request = USBMS_REQ_BBB_GET_MAX_LUN
    THEN "getMaxLUN"
    ELSE "super"

\* ------------------------------------------------------------------------
\* The host's traffic
\* ------------------------------------------------------------------------
\* command buffers, as the bytes of the opcode and its parameters
CDB_TestUnitReady == <<SCSI_CMD_TEST_UNIT_READY>>
CDB_RequestSense == <<SCSI_CMD_REQUEST_SENSE, 0, 0, 0, 18, 0>>
CDB_Inquiry(allocation_length) ==
    <<SCSI_CMD_INQUIRY, 0, 0>> \o ToBigEndian(allocation_length, 2) \o <<0>>
CDB_ModeSense6 == <<SCSI_CMD_MODE_SENSE6, 0, 63, 0, 192, 0>>
CDB_StartStopUnit == <<SCSI_CMD_START_STOP_UNIT, 0, 0, 0, 1, 0>>
CDB_PreventAllowMediumRemoval ==
    <<SCSI_CMD_PREVENT_ALLOW_MEDIUM_REMOVAL, 0, 0, 0, 1, 0>>
CDB_ReadFormatCapacity == <<SCSI_CMD_READ_FORMAT_CAPACITY>>
CDB_ReadCapacity10(flags2) ==
    <<SCSI_CMD_READ_CAPACITY10, 0, 0, 0, 0, 0, 0, 0, flags2, 0>>
CDB_Read10(lba, transfer_length) ==
    <<SCSI_CMD_READ10, 0>> \o ToBigEndian(lba, 4) \o <<0>>
        \o ToBigEndian(transfer_length, 2) \o <<0>>
CDB_Write10(lba, transfer_length) ==
    <<SCSI_CMD_WRITE10, 0>> \o ToBigEndian(lba, 4) \o <<0>>
        \o ToBigEndian(transfer_length, 2) \o <<0>>
CDB_Verify10(flags1, lba) ==
    <<SCSI_CMD_VERIFY10, flags1>> \o ToBigEndian(lba, 4) \o <<0, 0, 1, 0>>
CDB_ModeSense10 == <<SCSI_CMD_MODE_SENSE10, 0, 63>>
CDB_Vendor == <<255>>

\* the command buffers a host sends
Commands ==
    {CDB_TestUnitReady, CDB_RequestSense, CDB_ModeSense6, CDB_StartStopUnit,
     CDB_PreventAllowMediumRemoval, CDB_ReadFormatCapacity, CDB_ModeSense10,
     CDB_Vendor}
    \cup {CDB_Inquiry(n) : n \in {sizeof(SCSIResponseInquiry) - 1,
                                  sizeof(SCSIResponseInquiry)}}
    \cup {CDB_ReadCapacity10(f) : f \in {0, 1}}
    \cup {CDB_Read10(0, n) : n \in {0, 1}}
    \cup {CDB_Write10(0, 1)}
    \cup {CDB_Verify10(f, 0) : f \in {0, SCSI_VERIFY_F1_BYTCHK}}

\* the logical units the function is constructed with
LogicalUnits == <<"MassStorageLogicalUnit", "MassStorageLogicalUnitDummy">>

Tags == 1..MaxTag
CBLengths == {6, 10}

\* the CBLength that matches the opcode's length class
CBLengthOf(cb) == cdb_size(cb)

\* announcing no data: every command on the first unit with a right and a
\* wrong CDB length, and some on the other units with the right one
PlainPackets ==
    {CBW_bytes(USBMS_CBW_MAGIC, 1, 0, USBMS_CBW_DIR_OUT, 0, cblen, cb) :
        cblen \in CBLengths, cb \in Commands}
    \cup {CBW_bytes(USBMS_CBW_MAGIC, 1, 0, USBMS_CBW_DIR_OUT, lun,
                    CBLengthOf(cb), cb) :
            lun \in 1..(Len(LogicalUnits) - 1),
            cb \in {CDB_TestUnitReady, CDB_RequestSense,
                    CDB_Inquiry(sizeof(SCSIResponseInquiry)),
                    CDB_ReadCapacity10(0), CDB_Read10(0, 1),
                    CDB_Write10(0, 1), CDB_Vendor}}
    \cup {CBW_bytes(USBMS_CBW_MAGIC, 1, 0, USBMS_CBW_DIR_OUT, lun, 10,
                    CDB_RequestSense) : lun \in 1..(Len(LogicalUnits) - 1)}

\* commands announcing a device-to-host transfer, under every tag
InPackets ==
    {CBW_bytes(USBMS_CBW_MAGIC, tag, dlen, USBMS_CBW_DIR_IN, 0,
               CBLengthOf(cb), cb) :
        tag \in Tags, dlen \in {0, MaxLen},
        cb \in {CDB_RequestSense, CDB_Read10(0, 1), CDB_Write10(0, 1),
                CDB_ModeSense10}}

\* commands announcing a host-to-device transfer: an OUT data phase follows
OutPackets ==
    {CBW_bytes(USBMS_CBW_MAGIC, 1, MaxLen, USBMS_CBW_DIR_OUT, 0, 10,
               CDB_Write10(0, 1)),
     CBW_bytes(USBMS_CBW_MAGIC, MaxTag, 1, USBMS_CBW_DIR_OUT, 1, 10,
               CDB_Verify10(SCSI_VERIFY_F1_BYTCHK, 0)),
     CBW_bytes(USBMS_CBW_MAGIC, MaxTag, 1, USBMS_CBW_DIR_OUT, 0, 6,
               CDB_Vendor),
     \* data as long as a CBW: one packet of CBW size ends the phase
     CBW_bytes(USBMS_CBW_MAGIC, 1, sizeof(CBW), USBMS_CBW_DIR_OUT, 0, 10,
               CDB_Write10(0, 1))}

\* commands whose LUN field is past the last unit
BadLUNPackets ==
    {CBW_bytes(USBMS_CBW_MAGIC, 1, dlen, USBMS_CBW_DIR_OUT,
               Len(LogicalUnits), 10, CDB_Write10(0, 1)) : dlen \in {0, 1}}

\* packets that hold a CBW with a valid signature
CommandPackets == PlainPackets \cup InPackets \cup OutPackets \cup BadLUNPackets

\* commands that call a backend hook of the first unit at once
HookPackets ==
    {CBW_bytes(USBMS_CBW_MAGIC, MaxTag, 0, USBMS_CBW_DIR_OUT, 0,
               CBLengthOf(cb), cb) :
        cb \in {CDB_TestUnitReady, CDB_Inquiry(sizeof(SCSIResponseInquiry)),
                CDB_ReadCapacity10(0), CDB_Read10(0, 1), CDB_Verify10(0, 0)}}

\* commands sent while the IN endpoint fails: with and without a payload,
\* refused, and crashing in the handler
FailPackets ==
    {CBW_bytes(USBMS_CBW_MAGIC, 1, 0, USBMS_CBW_DIR_OUT, lun,
               CBLengthOf(cb), cb) :
        lun \in 0..(Len(LogicalUnits) - 1),
        cb \in {CDB_RequestSense, CDB_TestUnitReady, CDB_Vendor}}

\* packets of CBW size whose signature is wrong
BadSignaturePackets ==
    {CBW_bytes(sig, 1, dlen, USBMS_CBW_DIR_OUT, 0, 6, CDB_TestUnitReady) :
        sig \in {0, USBMS_CSW_MAGIC}, dlen \in {0, 1}}

\* packets of an OUT data phase: empty, one byte, MaxLen bytes
DataPackets ==
    {<<>>, <<165>>, <<90>>} \cup {[i \in 1..MaxLen |-> 60 + i]}

\* a CBW the host sends before the data phase of the previous one ended
SecondPackets ==
    {CBW_bytes(USBMS_CBW_MAGIC, MaxTag, 0, USBMS_CBW_DIR_OUT, 0, 6,
               CDB_TestUnitReady)}

\* the IN-endpoint write attempts that fail during one completion
FailSets == {{}, {1}, {1, 2}, {2}, {2, 3}}

\* ------------------------------------------------------------------------
\* State machine
\* ------------------------------------------------------------------------
\* MassStorageFunction.__init__(path, logical_units): rejected without units
InitWith(units) ==
    /\ _logical_units = units
    /\ constructed = (Len(units) # 0)
    /\ sense = [i \in 1..Len(units) |-> LogicalUnit_init(units[i])]
    /\ _io = [i \in 1..Len(units) |-> io_init(units[i])]
    /\ _receiving_length = 0
    /\ _received_data = <<>>
    /\ _current_cbw = None
    /\ halted = {}
    /\ call = [op |-> "__init__"]
    /\ halt_calls = {}
    /\ in_writes = <<>>
    /\ ep0_writes = <<>>
    /\ calls = <<>>
    /\ processed = <<>>
    /\ raised = IF Len(units) = 0 THEN "ValueError" ELSE "none"

Init == InitWith(LogicalUnits)

\* the units' stores after an entry point with outcome o: the command it
\* processed called onWrite(params.lba, data) or left them alone
Stored(units, ios, o) ==
    IF o.processed # <<>>
       /\ \E k \in DOMAIN o.calls : o.calls[k][2] = "onWrite"
    THEN [ios EXCEPT ![o.processed[1].cbw.bCBWLUN + 1] =
              onWrite(units[o.processed[1].cbw.bCBWLUN + 1], @,
                      param(o.processed[1].cbw.CBWCB, "lba"),
                      Get(o.processed[1].data))]
    ELSE ios

\* the state after an entry point with outcome o
Apply(o) ==
    /\ _io' = Stored(_logical_units, _io, o)
    /\ _receiving_length' = o._receiving_length
    /\ _received_data' = o._received_data
    /\ _current_cbw' = o._current_cbw
    /\ sense' = o.sense
    /\ halted' = halted \cup o.halt
    /\ halt_calls' = o.halt
    /\ in_writes' = o.in_writes
    /\ calls' = o.calls
    /\ processed' = o.processed
    /\ raised' = o.raised
    /\ UNCHANGED <<_logical_units, constructed>>

\* an OUT completion delivered to the function
Complete(data, status, hb, fail) ==
    /\ constructed
    /\ call' = [op |-> "onComplete", data |-> data, status |-> status]
    /\ ep0_writes' = <<>>
    /\ \E o \in {onComplete(_logical_units, sense, _io, _receiving_length,
                           _received_data, _current_cbw, data, status, hb,
                           fail)} : Apply(o)

\* the accumulator stays within the model's bound, but for a first data
\* packet, which may have any length
Bounded(data) ==
    \/ _receiving_length = 0
    \/ Len(_received_data) = 0
    \/ Len(_received_data) + Len(data) <= MaxAccum

\* the host sends a CBW
OutCommand ==
    \E data \in CommandPackets :
        /\ _receiving_length = 0
        /\ Complete(data, 0, "default", {})

\* the host sends a CBW to a unit whose hooks are overridden
OutCommandHook ==
    \E data \in HookPackets, hb \in HookBehaviours \ {"default"} :
        /\ _receiving_length = 0
        /\ Complete(data, 0, hb, {})

\* the host sends a CBW while writes on the IN endpoint fail
OutCommandWriteFail ==
    \E data \in FailPackets, fail \in FailSets \ {{}} :
        /\ _receiving_length = 0
        /\ Complete(data, 0, "default", fail)

\* the host sends a CBW before the data phase of the previous one ended
OutSecondCommand ==
    \E data \in SecondPackets :
        /\ _receiving_length # 0
        /\ Bounded(data)
        /\ Complete(data, 0, "default", {})

\* the host sends a packet with a wrong signature
OutBadSignature ==
    \E data \in BadSignaturePackets :
        /\ _receiving_length = 0
        /\ Complete(data, 0, "default", {})

\* the host sends a data packet
OutData ==
    \E data \in DataPackets, hb \in HookBehaviours, fail \in {{}, {1}} :
        /\ Bounded(data)
        /\ Complete(data, 0, hb, fail)

\* the OUT endpoint reports a shutdown or a fault
OutStatus ==
    \E status \in {-ESHUTDOWN, -EIO} :
        /\ status # 0
        /\ Complete(<<>>, status, "default", {})

\* bmRequestType of the control requests the host sends: class requests
\* to the interface in both directions, an IN class request to the device,
\* an OUT standard request to the interface
SetupRequestTypes ==
    {USB_DIR_OUT + USB_TYPE_CLASS + USB_RECIP_INTERFACE,
     USB_DIR_IN + USB_TYPE_CLASS + USB_RECIP_INTERFACE,
     USB_DIR_IN + USB_TYPE_CLASS,
     USB_DIR_OUT + USB_RECIP_INTERFACE}

\* a control request: onSetup(request_type, request, value, index, length)
Setup ==
    \E request_type \in SetupRequestTypes,
       request \in {USBMS_REQ_BBB_GET_MAX_LUN, USBMS_REQ_BBB_RESET} :
        /\ constructed
        /\ call' = [op |-> "onSetup", request_type |-> request_type,
                    request |-> request]
        /\ LET branch == onSetup(request_type, request)
           IN  /\ ep0_writes' = IF branch = "getMaxLUN"
                                THEN ToBigEndian(getMaxLUN(_logical_units), 1)
                                ELSE <<>>
               /\ Apply(IF branch = "reset"
                        THEN reset(_logical_units, sense)
                        ELSE Outcome(_receiving_length, _received_data,
                                     _current_cbw, sense, {}, <<>>, <<>>,
                                     <<>>, "none"))

\* onBind: the function is bound and resets itself
Bind ==
    /\ constructed
    /\ call' = [op |-> "onBind"]
    /\ ep0_writes' = <<>>
    /\ Apply(reset(_logical_units, sense))

Next ==
    \/ OutCommand
    \/ OutCommandHook
    \/ OutCommandWriteFail
    \/ OutSecondCommand
    \/ OutBadSignature
    \/ OutData
    \/ OutStatus
    \/ Setup
    \/ Bind

Spec == Init /\ [][Next]_vars

\* The function constructed with any tuple of at most MaxUnits units, the
\* empty one included, under a host that sends a few commands to every
\* LUN up to MaxUnits - 1, data packets and control requests.
UnitConfigurations ==
    UNION {[1..n -> LogicalUnitClasses] : n \in 0..MaxUnits}

InitUnits == \E units \in UnitConfigurations : InitWith(units)

UnitsPackets ==
    {CBW_bytes(USBMS_CBW_MAGIC, 1, 0, USBMS_CBW_DIR_OUT, lun, 6,
               CDB_RequestSense) : lun \in 0..(MaxUnits - 1)}
    \cup {CBW_bytes(USBMS_CBW_MAGIC, 1, 0, USBMS_CBW_DIR_OUT, 0, 6,
                    CDB_Vendor),
          CBW_bytes(USBMS_CBW_MAGIC, 1, MaxLen, USBMS_CBW_DIR_OUT, 0, 10,
                    CDB_Verify10(SCSI_VERIFY_F1_BYTCHK, 0))}

\* the host sends one of these commands
OutUnitsCommand ==
    \E data \in UnitsPackets :
        /\ _receiving_length = 0
        /\ Complete(data, 0, "default", {})

NextUnits ==
    \/ OutUnitsCommand
    \/ OutData
    \/ Setup
    \/ Bind

SpecUnits == InitUnits /\ [][NextUnits]_vars

\* The function the CLI builds, get_function_instance: one
\* MassStorageLogicalUnitDummy. The host writes and reads the first LBA,
\* the last one and the one after it, and asks for the capacity.
StoreLBAs == {0, LBA_COUNT - 1, LBA_COUNT}

InitStore == InitWith(<<"MassStorageLogicalUnitDummy">>)

StorePackets ==
    {CBW_bytes(USBMS_CBW_MAGIC, 1, dlen, USBMS_CBW_DIR_OUT, 0, 10,
               CDB_Write10(lba, 1)) : dlen \in {1, MaxLen}, lba \in StoreLBAs}
    \cup {CBW_bytes(USBMS_CBW_MAGIC, 1, 0, USBMS_CBW_DIR_IN, 0, 10,
                    CDB_Read10(lba, 1)) : lba \in StoreLBAs}
    \cup {CBW_bytes(USBMS_CBW_MAGIC, 1, 0, USBMS_CBW_DIR_IN, 0, 10,
                    CDB_ReadCapacity10(0))}

\* the host sends one of these commands
OutStoreCommand ==
    \E data \in StorePackets :
        /\ _receiving_length = 0
        /\ Complete(data, 0, "default", {})

\* the host sends the data of a write
OutStoreData ==
    \E data \in DataPackets :
        /\ _receiving_length # 0
        /\ Bounded(data)
        /\ Complete(data, 0, "default", {})

NextStore ==
    \/ OutStoreCommand
    \/ OutStoreData

SpecStore == InitStore /\ [][NextStore]_vars

\* ------------------------------------------------------------------------
\* Properties
\* ------------------------------------------------------------------------
\* the write attempts of one kind the last completion made on the IN
\* endpoint, and those of them that succeeded
Attempts(kind) == SelectSeq(in_writes, LAMBDA w : w.kind = kind)
Written(kind) == SelectSeq(in_writes, LAMBDA w : w.kind = kind /\ w.ok)
WritesSucceed == \A i \in DOMAIN in_writes : in_writes[i].ok

\* fields of a CBW read off the packet, as Bulk-Only Transport lays them out
PacketSignature(data) ==
    data[1] + data[2] * 256 + data[3] * 65536 + data[4] * 16777216
PacketTag(data) ==
    data[5] + data[6] * 256 + data[7] * 65536 + data[8] * 16777216
PacketLength(data) ==
    data[9] + data[10] * 256 + data[11] * 65536 + data[12] * 16777216

\* the opcodes of the command table
TableOpcodes ==
    {SCSI_CMD_TEST_UNIT_READY, SCSI_CMD_REQUEST_SENSE, SCSI_CMD_INQUIRY,
     SCSI_CMD_MODE_SENSE6, SCSI_CMD_START_STOP_UNIT,
     SCSI_CMD_PREVENT_ALLOW_MEDIUM_REMOVAL, SCSI_CMD_READ_CAPACITY10,
     SCSI_CMD_READ10, SCSI_CMD_WRITE10, SCSI_CMD_VERIFY10,
     SCSI_CMD_MODE_SENSE10}

\* the command was refused as an Illegal Request without detail: no hook
\* called, one CSW of status Bad, the unit's sense set accordingly
RefusedAsIllegalRequest(p) ==
    /\ p.outcome = "MassStorageError"
    /\ calls = <<>>
    /\ Len(in_writes) = 1
    /\ in_writes[1].kind = "CSW"
    /\ in_writes[1].body.bCSWStatus = USBMS_CSW_STATUS_BAD
    /\ sense[p.cbw.bCBWLUN + 1].set
    /\ ~IsNone(sense[p.cbw.bCBWLUN + 1].value)
    /\ Get(sense[p.cbw.bCBWLUN + 1].value).sense_key
           = SCSI_SENSE_KEY_ILLEGAL_REQUEST
    /\ Get(sense[p.cbw.bCBWLUN + 1].value).asc_ascq = SCSI_ASC_NONE

\* C1: a CBW with a valid signature and dCBWDataTransferLength = 0, whatever
\* its opcode, processed in Idle (by a unit in range, the IN writes
\* succeeding) is answered by exactly one CSW and no response payload.
C1_ZeroLengthCommandWritesOnlyCSW ==
    \A i \in DOMAIN processed :
        (/\ IsNone(processed[i].data)
         /\ processed[i].cbw.dCBWDataTransferLength = 0
         /\ processed[i].cbw.bCBWLUN < Len(_logical_units)
         /\ WritesSucceed)
        => /\ Len(Written("CSW")) = 1
           /\ Len(Attempts("response_data")) = 0

\* C2: every dispatched command whose LUN is in range is answered by
\* exactly one CSW, written last, whatever its handler did (payload,
\* nothing, a sanctioned error, any other exception), as long as the writes
\* on the IN endpoint succeed.
C2_ExactlyOneCSW ==
    \A i \in DOMAIN processed :
        (processed[i].cbw.bCBWLUN < Len(_logical_units) /\ WritesSucceed)
        => /\ Len(Attempts("CSW")) = 1
           /\ in_writes[Len(in_writes)].kind = "CSW"

\* C2 witness: a hook raised an exception that is not a sanctioned error
\* and the command was answered by one CSW
C2_FaultAnswered ==
    /\ processed # <<>>
    /\ processed[1].outcome = "Exception"
    /\ calls # <<>>
    /\ WritesSucceed
    /\ Len(Written("CSW")) = 1

\* C3: every CSW carries the tag of the CBW that opened its command cycle:
\* of the packet just received when the command is dispatched from Idle,
\* of the CBW accepted before the data phase otherwise, which is the one
\* stored on acceptance and kept until the phase ends.
C3_CSWCarriesTagOfItsCBW ==
    [][/\ (_receiving_length = 0 /\ _receiving_length' # 0)
              => Get(_current_cbw').dCBWTag = PacketTag(call'.data)
       /\ (_receiving_length # 0 /\ _receiving_length' # 0)
              => _current_cbw' = _current_cbw
       /\ \A i \in DOMAIN in_writes' :
              in_writes'[i].kind = "CSW"
              => in_writes'[i].body.dCSWTag
                     = IF _receiving_length = 0
                       THEN PacketTag(call'.data)
                       ELSE Get(_current_cbw).dCBWTag]_vars

\* C3 witness: a data phase ended by a packet that is itself a CBW with
\* another tag, the CSW carrying the tag of the CBW that opened the phase
C3_TagAfterDataPhase ==
    /\ processed # <<>>
    /\ ~IsNone(processed[1].data)
    /\ Len(call.data) = sizeof(CBW)
    /\ PacketSignature(call.data) = USBMS_CBW_MAGIC
    /\ PacketTag(call.data) # Get(_current_cbw).dCBWTag
    /\ Len(Written("CSW")) = 1
    /\ Written("CSW")[1].body.dCSWTag = Get(_current_cbw).dCBWTag

\* C4: an OUT packet received in Idle whose signature is not the CBW
\* signature halts both endpoints, writes nothing on the IN endpoint, calls
\* no hook of any unit and leaves the session state and every unit's sense
\* as they were.
C4_BadSignatureHaltsOnly ==
    [][(/\ call'.op = "onComplete"
        /\ call'.status = 0
        /\ _receiving_length = 0
        /\ Len(call'.data) >= 4
        /\ PacketSignature(call'.data) # USBMS_CBW_MAGIC)
       => /\ halt_calls' = {1, 2}
          /\ in_writes' = <<>>
          /\ calls' = <<>>
          /\ processed' = <<>>
          /\ UNCHANGED <<_receiving_length, _received_data, _current_cbw,
                         sense>>]_vars

\* C4 witness: a packet with a wrong signature has halted both endpoints
\* of a function that holds a CBW, data and a sense from earlier commands
C4_BadSignatureHalted ==
    /\ call.op = "onComplete"
    /\ call.status = 0
    /\ Len(call.data) >= 4
    /\ PacketSignature(call.data) # USBMS_CBW_MAGIC
    /\ halt_calls = {1, 2}
    /\ _receiving_length = 0
    /\ ~IsNone(_current_cbw)
    /\ _received_data # <<>>
    /\ ~IsNone(sense[1].value)

\* C5: once a CBW announcing L > 0 bytes of host-to-device data is accepted
\* (L recorded, accumulator emptied, nothing dispatched), every OUT packet
\* that follows is appended to the accumulator and not read as a CBW;
\* nothing is dispatched or written until the accumulated length equals L,
\* and then the stored CBW is dispatched once with the accumulated bytes,
\* in arrival order, as its data and the receiving length back at 0.
C5_DataPhaseAccumulatesThenDispatches ==
    [][/\ (_receiving_length = 0 /\ _receiving_length' # 0)
              => /\ _receiving_length' = PacketLength(call'.data)
                 /\ _received_data' = <<>>
                 /\ processed' = <<>>
                 /\ in_writes' = <<>>
       /\ (/\ _receiving_length # 0
           /\ call'.op = "onComplete"
           /\ call'.status = 0)
              => /\ _received_data' = _received_data \o call'.data
                 /\ IF Len(_received_data') = _receiving_length
                    THEN /\ Len(processed') = 1
                         /\ processed'[1].cbw = Get(_current_cbw)
                         /\ processed'[1].data = <<_received_data'>>
                         /\ _receiving_length' = 0
                    ELSE /\ processed' = <<>>
                         /\ in_writes' = <<>>
                         /\ calls' = <<>>
                         /\ _receiving_length' = _receiving_length
                         /\ _current_cbw' = _current_cbw]_vars

\* C5 witness: a Write(10) dispatched with data that arrived in more than
\* one packet, the last of them a single byte
C5_SplitDataDispatched ==
    /\ processed # <<>>
    /\ ~IsNone(processed[1].data)
    /\ Len(Get(processed[1].data)) = MaxLen
    /\ Len(call.data) = 1
    /\ Get(processed[1].data)[1] # Get(processed[1].data)[MaxLen]
    /\ command(processed[1].cbw.CBWCB) = SCSI_CMD_WRITE10
    /\ calls = <<<<0, "onWrite">>>>
    /\ _receiving_length = 0

\* C6: a command whose opcode is not in the command table, its length
\* class known or not, is refused as an Illegal Request: no hook is called,
\* the CSW has status Bad and the unit's sense is Illegal Request without
\* additional sense code.
C6_UnknownOpcodeRefused ==
    \A i \in DOMAIN processed :
        (/\ command(processed[i].cbw.CBWCB) \notin TableOpcodes
         /\ processed[i].cbw.bCBWLUN < Len(_logical_units))
        => RefusedAsIllegalRequest(processed[i])

\* C6 witness: Read Format Capacities, an opcode of the 10-byte class that
\* the table lacks, was refused and the CSW written
C6_ReadFormatCapacityRefused ==
    /\ processed # <<>>
    /\ command(processed[1].cbw.CBWCB) = SCSI_CMD_READ_FORMAT_CAPACITY
    /\ cdb_size(processed[1].cbw.CBWCB) # 0
    /\ RefusedAsIllegalRequest(processed[1])
    /\ WritesSucceed

\* C7: a command of the table whose bCBWCBLength - 1 differs from the size
\* of its parameter structure is refused as an Illegal Request before any
\* hook is called and before the stored sense is read: CSW of status Bad,
\* sense Illegal Request.
C7_WrongCDBLengthRefused ==
    \A i \in DOMAIN processed :
        (/\ command(processed[i].cbw.CBWCB) \in TableOpcodes
         /\ processed[i].cbw.bCBWLUN < Len(_logical_units)
         /\ processed[i].cbw.bCBWCBLength - 1
                # sizeof(ParameterFields(
                      _PARSERS[command(processed[i].cbw.CBWCB)])))
        => RefusedAsIllegalRequest(processed[i])

\* C7 witness: a Request Sense of the wrong length sent to a unit that has
\* no sense attribute to read was refused
C7_RequestSenseRefusedUnread ==
    /\ processed # <<>>
    /\ command(processed[1].cbw.CBWCB) = SCSI_CMD_REQUEST_SENSE
    /\ processed[1].cbw.bCBWCBLength = 10
    /\ _logical_units[processed[1].cbw.bCBWLUN + 1]
           = "MassStorageLogicalUnitDummy"
    /\ RefusedAsIllegalRequest(processed[1])

\* the unit answered a Request Sense with a sense payload
RequestSenseAnswered(lun) ==
    /\ processed # <<>>
    /\ processed[1].cbw.bCBWLUN = lun
    /\ command(processed[1].cbw.CBWCB) = SCSI_CMD_REQUEST_SENSE
    /\ processed[1].outcome = "return"
    /\ in_writes[1].kind = "response_data"

\* C8: Request Sense consumes the stored sense: a Request Sense that
\* follows a Request Sense on the same unit, no command having failed in
\* between, returns No Sense.
C8_RequestSenseConsumesSense ==
    [][\A lun \in 0..(Len(_logical_units) - 1) :
           (RequestSenseAnswered(lun) /\ RequestSenseAnswered(lun)')
           => in_writes'[1].body.sense_key = SCSI_SENSE_KEY_NO_SENSE]_vars

\* C9: a Write(10) with the right CDB length and no data buffer (data
\* length 0, or direction IN) is answered by a CSW of status Phase Error,
\* without onWrite being called, the unit's sense cleared to none and no
\* endpoint halted.
C9_WriteWithoutDataIsPhaseError ==
    \A i \in DOMAIN processed :
        LET cbw == processed[i].cbw
        IN  (/\ command(cbw.CBWCB) = SCSI_CMD_WRITE10
             /\ cbw.bCBWCBLength = 10
             /\ cbw.bCBWLUN < Len(_logical_units)
             /\ \/ cbw.dCBWDataTransferLength = 0
                \/ cbw.bmCBWFlags >= 128
             /\ WritesSucceed)
            => /\ Len(in_writes) = 1
               /\ in_writes[1].kind = "CSW"
               /\ in_writes[1].body.bCSWStatus = USBMS_CSW_STATUS_PHASE_ERROR
               /\ \A j \in DOMAIN calls : calls[j][2] # "onWrite"
               /\ sense[cbw.bCBWLUN + 1] = SenseNone
               /\ halt_calls = {}

\* C9 witness: a Write(10) announcing device-to-host data was answered by
\* a Phase Error CSW on endpoints that a reset had left running
C9_WriteDirectionIn ==
    /\ processed # <<>>
    /\ command(processed[1].cbw.CBWCB) = SCSI_CMD_WRITE10
    /\ processed[1].cbw.bmCBWFlags >= 128
    /\ processed[1].cbw.dCBWDataTransferLength # 0
    /\ Len(Written("CSW")) = 1
    /\ Written("CSW")[1].body.bCSWStatus = USBMS_CSW_STATUS_PHASE_ERROR
    /\ sense[processed[1].cbw.bCBWLUN + 1] = SenseNone
    /\ halted = {}

\* C10: Get Max LUN (direction IN, type class, recipient interface,
\* request 0xFE) on a function of N >= 1 units writes the single byte N - 1
\* on endpoint 0 and changes neither the session state nor the sense of any
\* unit; a function of no unit is rejected at construction, so every step
\* is taken by a constructed function that has a unit.
C10_GetMaxLUN ==
    [][/\ constructed
       /\ Len(_logical_units) >= 1
       /\ (/\ call'.op = "onSetup"
           /\ call'.request = 254
           /\ call'.request_type >= 128
           /\ (call'.request_type \div 32) % 4 = 1
           /\ call'.request_type % 32 = 1)
          => /\ ep0_writes' = <<Len(_logical_units) - 1>>
             /\ UNCHANGED <<_receiving_length, _received_data,
                            _current_cbw, sense, halted>>]_vars

\* C10 witness: a function of three units, in the middle of a data phase
\* and with a sense stored, has answered Get Max LUN with the byte 2
C10_ThreeUnitsAnswerTwo ==
    /\ Len(_logical_units) = 3
    /\ call.op = "onSetup"
    /\ ep0_writes = <<2>>
    /\ _receiving_length # 0
    /\ _received_data # <<>>
    /\ \E i \in DOMAIN sense : ~IsNone(sense[i].value)

\* a Bulk-Only Reset request: direction OUT, type class, recipient
\* interface, request 0xFF
ResetRequested ==
    /\ call.op = "onSetup"
    /\ call.request = 255
    /\ call.request_type < 128
    /\ (call.request_type \div 32) % 4 = 1
    /\ call.request_type % 32 = 1

\* C11: a Bulk-Only Reset, in any state, leaves _receiving_length = 0, the
\* accumulator empty and _current_cbw None, calls onReset once on every
\* unit, writes nothing on the IN endpoint and leaves every unit's sense
\* as it was; the OUT packet that follows is parsed as a CBW, not appended.
C11_ResetClearsSession ==
    [][/\ ResetRequested'
          => /\ _receiving_length' = 0
             /\ _received_data' = <<>>
             /\ _current_cbw' = None
             /\ calls' = [i \in 1..Len(_logical_units) |-> <<i - 1, "onReset">>]
             /\ in_writes' = <<>>
             /\ sense' = sense
       /\ (ResetRequested /\ call'.op = "onComplete" /\ call'.status = 0)
          => /\ _received_data' = <<>>
             /\ IF Len(call'.data) < sizeof(CBW)
                THEN halt_calls' = {1, 2} /\ _receiving_length' = 0
                ELSE IF PacketSignature(call'.data) # USBMS_CBW_MAGIC
                THEN halt_calls' = {1, 2} /\ _receiving_length' = 0
                ELSE \/ /\ Len(processed') = 1
                        /\ processed'[1].cbw.dCBWTag = PacketTag(call'.data)
                        /\ IsNone(processed'[1].data)
                     \/ /\ processed' = <<>>
                        /\ _receiving_length' = PacketLength(call'.data)
                        /\ Get(_current_cbw').dCBWTag
                               = PacketTag(call'.data)]_vars

\* C11 witness: a reset was processed by a function whose endpoints a fault
\* had halted and whose first unit holds a sense
C11_ResetWithSenseStored ==
    /\ ResetRequested
    /\ calls = [i \in 1..Len(_logical_units) |-> <<i - 1, "onReset">>]
    /\ Len(calls) > 1
    /\ ~IsNone(sense[1].value)
    /\ halted # {}
    /\ _receiving_length = 0
    /\ _received_data = <<>>
    /\ IsNone(_current_cbw)

\* a transport fault happened in the step: a fault status on the OUT
\* endpoint, a bad CBW signature in Idle, or a failed CSW write
TransportFault ==
    /\ call'.op = "onComplete"
    /\ \/ call'.status \notin {0, -ESHUTDOWN}
       \/ /\ call'.status = 0
          /\ _receiving_length = 0
          /\ Len(call'.data) >= sizeof(CBW)
          /\ PacketSignature(call'.data) # USBMS_CBW_MAGIC
       \/ /\ call'.status = 0
          /\ \E i \in 1..Len(in_writes') :
                in_writes'[i].kind = "CSW" /\ ~in_writes'[i].ok

\* C12: a transport fault (fault status on the OUT endpoint, bad CBW
\* signature, failed CSW write) leaves _receiving_length = 0, the
\* accumulator empty and _current_cbw None, also in the middle of an OUT
\* data phase.
C12_TransportFaultClearsSession ==
    [][TransportFault
       => /\ _receiving_length' = 0
          /\ _received_data' = <<>>
          /\ _current_cbw' = None]_vars

\* C13: whenever a CSW write fails (Good status after success, error
\* status after a sanctioned error, PhaseError after an unexpected fault),
\* both bulk endpoints are halted and no further write is attempted for
\* that command.
C13_FailedCSWWriteHaltsAndStops ==
    \A i \in 1..Len(in_writes) :
        (in_writes[i].kind = "CSW" /\ ~in_writes[i].ok)
        => /\ halt_calls = {1, 2}
           /\ i = Len(in_writes)

\* C14: once both bulk endpoints have been halted, no later OUT packet is
\* accepted until a Bulk-Only Reset has been processed: no command is
\* dispatched, no CSW is written and the session state does not change.
C14_HaltedAcceptsNothing ==
    [][(halt_calls = {1, 2} /\ call'.op = "onComplete" /\ call'.status = 0)
       => /\ processed' = <<>>
          /\ in_writes' = <<>>
          /\ UNCHANGED <<_receiving_length, _received_data,
                         _current_cbw>>]_vars

\* the data-phase bytes moved for the dispatched command p: the bytes
\* received on the OUT endpoint, or else the payload written on the IN
\* endpoint
Transferred(p) ==
    IF ~IsNone(p.data) THEN Len(Get(p.data))
    ELSE IF Len(Written("response_data")) = 0 THEN 0
    ELSE Written("response_data")[1].body.len

\* C15: in every CSW the data residue is the CBW's dCBWDataTransferLength
\* minus the data-phase bytes transferred for the command (stated for the
\* commands that moved no more than the host announced).
C15_ResidueIsRequestedMinusTransferred ==
    \A i \in DOMAIN processed :
        (/\ processed[i].cbw.bCBWLUN < Len(_logical_units)
         /\ Transferred(processed[i])
                <= processed[i].cbw.dCBWDataTransferLength)
        => \A j \in DOMAIN in_writes :
               in_writes[j].kind = "CSW"
               => in_writes[j].body.dCSWDataResidue
                      = processed[i].cbw.dCBWDataTransferLength
                        - Transferred(processed[i])

\* C16: Mode Sense(6) with CDB length 6 and Mode Sense(10) with CDB
\* length 10 succeed on any unit: a header-only response reporting no
\* mode-page byte, then a Good-status CSW, the sense of every unit left as
\* it was.
C16_ModeSenseSucceeds ==
    [][\A i \in DOMAIN processed' :
           LET cbw == processed'[i].cbw
           IN  (/\ \/ /\ command(cbw.CBWCB) = SCSI_CMD_MODE_SENSE6
                      /\ cbw.bCBWCBLength = 6
                   \/ /\ command(cbw.CBWCB) = SCSI_CMD_MODE_SENSE10
                      /\ cbw.bCBWCBLength = 10
                /\ cbw.bCBWLUN < Len(_logical_units)
                /\ WritesSucceed')
               => /\ processed'[i].outcome = "return"
                  /\ Len(in_writes') = 2
                  /\ in_writes'[1].kind = "response_data"
                  /\ in_writes'[1].body.mode_data_length
                         = in_writes'[1].body.len
                           - (IF cdb_size(cbw.CBWCB) = 6 THEN 1 ELSE 2)
                  /\ in_writes'[2].kind = "CSW"
                  /\ in_writes'[2].body.bCSWStatus = USBMS_CSW_STATUS_GOOD
                  /\ sense' = sense]_vars

\* an Inquiry with allocation_length 36 and the right CDB length was
\* dispatched to a unit in range, every IN write succeeding
FullInquiry(p) ==
    /\ command(p.cbw.CBWCB) = SCSI_CMD_INQUIRY
    /\ p.cbw.bCBWCBLength = 6
    /\ param(p.cbw.CBWCB, "allocation_length") = 36
    /\ p.cbw.bCBWLUN < Len(_logical_units)
    /\ WritesSucceed

\* the command failed in an overridden hook of its unit, not in the
\* handler of the class
FailedInOverride(p) ==
    /\ _logical_units[p.cbw.bCBWLUN + 1] = "MassStorageLogicalUnit"
    /\ \/ p.outcome = "Exception"
       \/ /\ p.outcome = "MassStorageError"
          /\ Get(sense[p.cbw.bCBWLUN + 1].value).sense_key
                 = SCSI_SENSE_KEY_NOT_READY

\* the Inquiry response of the default onInquiry, `size` bytes long,
\* followed by the Good-status CSW
InquiryAnswered(size) ==
    /\ Len(in_writes) = 2
    /\ in_writes[1].kind = "response_data"
    /\ in_writes[1].body.len = size
    /\ in_writes[1].body.peripheral_type = SCSI_INQUIRY_PERIF_TYPE_DIRECT
    /\ BitAnd(in_writes[1].body.field_1, SCSI_INQUIRY_HEADER_F1_RMB)
           = SCSI_INQUIRY_HEADER_F1_RMB
    /\ in_writes[1].body.vendor_id = "PyFFS"
    /\ in_writes[1].body.product_id = "USBMS"
    /\ in_writes[1].body.product_revision = "0000"
    /\ in_writes[2].kind = "CSW"
    /\ in_writes[2].body.bCSWStatus = USBMS_CSW_STATUS_GOOD

\* C17 as stated: an Inquiry with allocation_length = 36 on a default unit
\* succeeds and returns a 40-byte structure with peripheral type
\* Direct-Access, the removable bit set, vendor PyFFS, product USBMS and
\* revision 0000.
C17_InquiryReturns40Bytes ==
    \A i \in DOMAIN processed :
        FullInquiry(processed[i])
        => \/ FailedInOverride(processed[i])
           \/ /\ processed[i].outcome = "return"
              /\ InquiryAnswered(40)

\* C17 amended: the structure returned is 36 bytes long (a 5-byte header
\* and 31 bytes of features), the rest as stated.
C17_InquiryReturns36Bytes ==
    \A i \in DOMAIN processed :
        FullInquiry(processed[i])
        => \/ FailedInOverride(processed[i])
           \/ /\ processed[i].outcome = "return"
              /\ InquiryAnswered(sizeof(SCSIResponseInquiry))
              /\ sizeof(SCSIResponseInquiry) = 36
              /\ sizeof(SCSIResponseInquiryHeader) = 5
              /\ sizeof(SCSIResponseInquiryFeatures) = 31

\* C17 witness: a unit with the default hooks answered an Inquiry with
\* allocation_length 36
C17_FullInquiryAnswered ==
    /\ processed # <<>>
    /\ FullInquiry(processed[1])
    /\ processed[1].outcome = "return"
    /\ calls = <<<<processed[1].cbw.bCBWLUN, "onInquiry">>>>
    /\ in_writes[1].body.len = 36

\* C18: when the handler of a command addressed to unit i raises a
\* sanctioned error and the CSW can be written, the sense of unit i becomes
\* the error's sense payload (None for a Phase Error), the sense of every
\* other unit stays as it was, one CSW carrying the error's status is
\* written, no endpoint is halted and _receiving_length is 0, so that the
\* next OUT packet is parsed as a CBW.
C18_SanctionedErrorIsRecoverable ==
    [][\A i \in DOMAIN processed' :
           LET lun == processed'[i].cbw.bCBWLUN
           IN  (processed'[i].outcome = "MassStorageError" /\ WritesSucceed')
               => /\ Len(in_writes') = 1
                  /\ in_writes'[1].kind = "CSW"
                  /\ in_writes'[1].body.bCSWStatus
                         \in {USBMS_CSW_STATUS_BAD,
                              USBMS_CSW_STATUS_PHASE_ERROR}
                  /\ IF in_writes'[1].body.bCSWStatus
                            = USBMS_CSW_STATUS_PHASE_ERROR
                     THEN sense'[lun + 1] = SenseNone
                     ELSE /\ sense'[lun + 1].set
                          /\ ~IsNone(sense'[lun + 1].value)
                          /\ Get(sense'[lun + 1].value).sense_key
                                 \in {SCSI_SENSE_KEY_ILLEGAL_REQUEST,
                                      SCSI_SENSE_KEY_NOT_READY}
                  /\ \A j \in DOMAIN sense :
                         j # lun + 1 => sense'[j] = sense[j]
                  /\ halt_calls' = {}
                  /\ raised' = "none"
                  /\ _receiving_length' = 0]_vars

\* C18 witness: a command refused on unit 1 while unit 0 holds the Not
\* Ready sense of an earlier command, the endpoints running
C18_RefusedOnSecondUnit ==
    /\ processed # <<>>
    /\ processed[1].outcome = "MassStorageError"
    /\ processed[1].cbw.bCBWLUN = 1
    /\ ~IsNone(sense[2].value)
    /\ Get(sense[2].value).sense_key = SCSI_SENSE_KEY_ILLEGAL_REQUEST
    /\ ~IsNone(sense[1].value)
    /\ Get(sense[1].value).sense_key = SCSI_SENSE_KEY_NOT_READY
    /\ Len(Written("CSW")) = 1
    /\ Written("CSW")[1].body.bCSWStatus = USBMS_CSW_STATUS_BAD
    /\ halt_calls = {}
    /\ _receiving_length = 0

\* C19: within one command cycle the IN writes are at most one response
\* payload, written only when the handler returned a non-empty payload,
\* and then the CSW as the last write; a handler that returns nothing or a
\* zero-length payload causes only the Good-status CSW to be written.
C19_PayloadOnlyWhenNonEmpty ==
    \A i \in DOMAIN processed :
        (processed[i].cbw.bCBWLUN < Len(_logical_units) /\ WritesSucceed)
        => /\ Len(Attempts("response_data")) <= 1
           /\ \A j \in DOMAIN in_writes :
                  in_writes[j].kind = "response_data"
                  => /\ processed[i].outcome = "return"
                     /\ in_writes[j].body.len > 0
                     /\ j = 1
           /\ in_writes # <<>>
           /\ in_writes[Len(in_writes)].kind = "CSW"
           /\ Len(Attempts("CSW")) = 1

\* C20: an OUT completion with status -ESHUTDOWN halts no endpoint,
\* dispatches and writes nothing, raises nothing and leaves the session
\* state and every unit's sense as they were; an OUT completion with any
\* other nonzero status halts both bulk endpoints and raises IOError,
\* dispatching no command and writing nothing, in Idle as well as in the
\* middle of a data phase.
C20_ShutdownBenignFaultHalts ==
    [][call'.op = "onComplete"
       => /\ call'.status = -ESHUTDOWN
             => /\ halt_calls' = {}
                /\ halted' = halted
                /\ processed' = <<>>
                /\ in_writes' = <<>>
                /\ calls' = <<>>
                /\ raised' = "none"
                /\ UNCHANGED <<_receiving_length, _received_data,
                               _current_cbw, sense>>
          /\ call'.status \notin {0, -ESHUTDOWN}
             => /\ halt_calls' = {1, 2}
                /\ raised' = "IOError"
                /\ processed' = <<>>
                /\ in_writes' = <<>>
                /\ calls' = <<>>
                /\ sense' = sense]_vars

\* C20 witness: a fault status arrived in the middle of a data phase and
\* halted both endpoints, the error raised to the caller
C20_FaultInDataPhase ==
    /\ call.op = "onComplete"
    /\ call.status = -EIO
    /\ _receiving_length # 0
    /\ halt_calls = {1, 2}
    /\ raised = "IOError"
    /\ processed = <<>>
    /\ in_writes = <<>>

\* C21: an Inquiry with the right CDB length, on a unit whose hooks are
\* the class's own and with the IN writes succeeding, returns the fixed
\* Inquiry response and a Good-status CSW when its allocation length is at
\* least the size of SCSIResponseInquiry; with a smaller allocation length
\* it ends with a Bad-status CSW and the unit's sense is Illegal Request
\* with ASC/ASCQ Invalid Field in CDB.
C21_InquiryAllocationLength ==
    \A i \in DOMAIN processed :
        LET p == processed[i]
            lun == p.cbw.bCBWLUN
        IN  (/\ command(p.cbw.CBWCB) = SCSI_CMD_INQUIRY
             /\ p.cbw.bCBWCBLength = 6
             /\ lun < Len(_logical_units)
             /\ WritesSucceed
             /\ ~FailedInOverride(p))
            => IF param(p.cbw.CBWCB, "allocation_length")
                      >= sizeof(SCSIResponseInquiry)
               THEN /\ p.outcome = "return"
                    /\ InquiryAnswered(sizeof(SCSIResponseInquiry))
               ELSE /\ p.outcome = "MassStorageError"
                    /\ in_writes = <<[kind |-> "CSW", ok |-> TRUE,
                                      body |-> CSW_simple(
                                          p.cbw.dCBWTag,
                                          USBMS_CSW_STATUS_BAD, 0)]>>
                    /\ sense[lun + 1]
                           = SenseOf(Some(SCSIResponseRequestSense_simple(
                                 SCSI_SENSE_KEY_ILLEGAL_REQUEST,
                                 SCSI_ASC_INVALID_FIELD_IN_CDB)))

\* C21 witness: an Inquiry one byte short of the response was refused by
\* onInquiry with Invalid Field in CDB
C21_ShortInquiryRefused ==
    /\ processed # <<>>
    /\ command(processed[1].cbw.CBWCB) = SCSI_CMD_INQUIRY
    /\ processed[1].cbw.bCBWCBLength = 6
    /\ param(processed[1].cbw.CBWCB, "allocation_length")
           = sizeof(SCSIResponseInquiry) - 1
    /\ calls = <<<<processed[1].cbw.bCBWLUN, "onInquiry">>>>
    /\ Len(Written("CSW")) = 1
    /\ Written("CSW")[1].body.bCSWStatus = USBMS_CSW_STATUS_BAD
    /\ Get(sense[processed[1].cbw.bCBWLUN + 1].value).asc_ascq
           = SCSI_ASC_INVALID_FIELD_IN_CDB

\* the command p, addressed to a unit in range, failed: its handler raised
\* or a write of its answer did
Failed(p) ==
    p.cbw.bCBWLUN < Len(_logical_units) /\ p.outcome # "return"

\* the payload a Request Sense returns for the sense attribute s
SensePayload(s) ==
    IF IsNone(s.value)
    THEN SCSIResponseRequestSense_simple(SCSI_SENSE_KEY_NO_SENSE,
                                         SCSI_ASC_NONE)
    ELSE Get(s.value)

\* C22: the sense of unit i is written by the failed commands addressed to
\* unit i and by nothing else, and a Request Sense on unit i returns it.
\* Step by step: a failed command to unit i sets the sense of unit i to
\* the error's payload (None when the failure is a Phase Error or a fault)
\* and leaves the other units' sense alone; every other step (successful
\* commands, Request Sense among them, data packets, refused packets,
\* status completions, control requests, resets) leaves every sense as it
\* was; a Request Sense that returns gives the sense stored on its unit,
\* or No Sense when None is stored.
C22_SenseIsOfLastFailure ==
    [][/\ \A i \in DOMAIN processed' :
              LET p == processed'[i]
                  lun == p.cbw.bCBWLUN
              IN  /\ Failed(p)
                     => /\ Attempts("CSW")' # <<>>
                        /\ \A j \in DOMAIN sense :
                               j # lun + 1 => sense'[j] = sense[j]
                        /\ IF p.outcome = "MassStorageError"
                              /\ Attempts("CSW")'[1].body.bCSWStatus
                                     = USBMS_CSW_STATUS_BAD
                           THEN /\ ~IsNone(sense'[lun + 1].value)
                                /\ Get(sense'[lun + 1].value).sense_key
                                       \in {SCSI_SENSE_KEY_ILLEGAL_REQUEST,
                                            SCSI_SENSE_KEY_NOT_READY}
                           ELSE sense'[lun + 1] = SenseNone
                  /\ ~Failed(p) => sense' = sense
                  /\ (/\ p.outcome = "return"
                      /\ lun < Len(_logical_units)
                      /\ command(p.cbw.CBWCB) = SCSI_CMD_REQUEST_SENSE)
                     => in_writes'[1].body = SensePayload(sense[lun + 1])
       /\ processed' = <<>> => sense' = sense]_vars

\* C22 witness: a Request Sense on unit 0 returned the Invalid Field sense
\* of the command that failed there, after a command had failed on unit 1
\* with another sense
C22_SenseKeptAcrossOtherUnits ==
    /\ processed # <<>>
    /\ command(processed[1].cbw.CBWCB) = SCSI_CMD_REQUEST_SENSE
    /\ processed[1].cbw.bCBWLUN = 0
    /\ processed[1].outcome = "return"
    /\ Written("response_data") # <<>>
    /\ Written("response_data")[1].body.sense_key
           = SCSI_SENSE_KEY_ILLEGAL_REQUEST
    /\ Written("response_data")[1].body.asc_ascq
           = SCSI_ASC_INVALID_FIELD_IN_CDB
    /\ ~IsNone(sense[2].value)
    /\ Get(sense[2].value).asc_ascq = SCSI_ASC_NONE
    /\ halted # {}

\* C23: a CBW with a valid signature whose bCBWLUN is not smaller than the
\* number of units halts both bulk endpoints when it is dispatched, at
\* once or after its OUT data phase: no CSW and no payload are written, no
\* hook of any unit is called and no unit's sense changes.
C23_OutOfRangeLUNFailsFast ==
    [][\A i \in DOMAIN processed' :
           processed'[i].cbw.bCBWLUN >= Len(_logical_units)
           => /\ processed'[i].cbw.dCBWSignature = USBMS_CBW_MAGIC
              /\ halt_calls' = {1, 2}
              /\ in_writes' = <<>>
              /\ calls' = <<>>
              /\ sense' = sense
              /\ _receiving_length' = 0]_vars

\* C23 witness: a command for a unit that does not exist was dispatched
\* after its data phase and halted both endpoints
C23_OutOfRangeAfterDataPhase ==
    /\ processed # <<>>
    /\ processed[1].cbw.bCBWLUN >= Len(_logical_units)
    /\ ~IsNone(processed[1].data)
    /\ Len(Get(processed[1].data)) = processed[1].cbw.dCBWDataTransferLength
    /\ halt_calls = {1, 2}
    /\ in_writes = <<>>
    /\ calls = <<>>

\* C24: a data phase does not outlast the delivery of the announced byte
\* count: while _receiving_length > 0 the accumulated length is never
\* greater than _receiving_length, and _current_cbw is set.
C24_DataPhaseEndsAtClaimedLength ==
    _receiving_length > 0
    => /\ Len(_received_data) <= _receiving_length
       /\ ~IsNone(_current_cbw)

\* C25: on the CLI's MassStorageLogicalUnitDummy as on the base unit, a
\* Request Sense with the right CDB length, issued while the unit's sense
\* is as construction left it, ends with a Good-status CSW after a payload
\* of No Sense with ASC 0.
C25_RequestSenseOnFreshUnit ==
    [][\A i \in DOMAIN processed' :
           LET cbw == processed'[i].cbw
               lun == cbw.bCBWLUN
           IN  (/\ command(cbw.CBWCB) = SCSI_CMD_REQUEST_SENSE
                /\ cbw.bCBWCBLength = 6
                /\ lun < Len(_logical_units)
                /\ sense[lun + 1] = LogicalUnit_init(_logical_units[lun + 1])
                /\ WritesSucceed')
               => /\ processed'[i].outcome = "return"
                  /\ Len(in_writes') = 2
                  /\ in_writes'[1].kind = "response_data"
                  /\ in_writes'[1].body
                         = SCSIResponseRequestSense_simple(
                               SCSI_SENSE_KEY_NO_SENSE, SCSI_ASC_NONE)
                  /\ in_writes'[2].kind = "CSW"
                  /\ in_writes'[2].body.bCSWStatus
                         = USBMS_CSW_STATUS_GOOD]_vars

\* C26: the store of every MassStorageLogicalUnitDummy keeps its length of
\* LBA_COUNT * BLOCK_SIZE bytes, whatever Write(10) the host sends, so
\* that Read Capacity keeps describing it.
C26_StoreKeepsItsSize ==
    \A i \in DOMAIN _io :
        ~IsNone(_io[i])
        => Get(_io[i]).len = LBA_COUNT * BLOCK_SIZE
====
